---------------------------- MODULE Spec2Model ----------------------------
(***************************************************************************)
(* Isolation Governance Engine of the SOC agent: GUARDRAILS.py (lockout,   *)
(* rate limiting, batch size, mass-isolation exception, confidence rules), *)
(* the audit store of database/db_manager.py, the notifier of              *)
(* notifications/alert_manager.py and the batch pipeline of _main.py.      *)
(*                                                                         *)
(* Python strings whose characters matter (confidence tiers, the mass      *)
(* confirmation phrase, console answers) are sequences of one-character    *)
(* strings, so that lower() and strip() are computed and not assumed.      *)
(* Timestamps are minutes on an integer clock; the ISO-8601 strings the    *)
(* code compares order the same way.                                       *)
(*                                                                         *)
(* alert_manager.py is taken as importable (its line 271 needs Python      *)
(* 3.12 or later); on an older interpreter no part of the engine runs.     *)
(***************************************************************************)
EXTENDS Integers, Sequences, FiniteSets, TLC

VARIABLES
    lock_file,              \* GUARDRAILS.LOCK_FILE: <<>> when absent, else <<content>>
    isolation_events,       \* table isolation_events, in insertion order
    audit_log,              \* table audit_log, in insertion order
    threat_history,         \* number of rows of table threat_history
    now,                    \* the clock, in minutes
    pc,                     \* position of the _main.py run
    runs,                   \* number of _main.py runs started so far
    query_context,          \* scope flags and device of the current query
    findings,               \* hunt_results['findings'] of the current run
    idx,                    \* 1-based position of the per-threat loop
    machine_is_isolated,    \* _main.py flag
    mass_isolation_approved,\* _main.py flag
    rate_limit_check,       \* result of the loop's last rate-limit check
    countdown,              \* remaining one-second sleeps of the mass confirmation
    machine_id,             \* result of the executor's device lookup
    isolation_result,       \* result of the executor's quarantine call
    isolate_calls,          \* history: every quarantine_virtual_machine call
    prompts,                \* history: every per-threat confirmation prompt
    call,                   \* last direct call of an engine function, with its result
    peer                    \* a second _main.py process of the same actor

vars == <<lock_file, isolation_events, audit_log, threat_history, now, pc, runs,
          query_context, findings, idx, machine_is_isolated,
          mass_isolation_approved, rate_limit_check, countdown, machine_id,
          isolation_result, isolate_calls, prompts, call, peer>>

run_vars == <<pc, runs, query_context, findings, idx, machine_is_isolated,
              mass_isolation_approved, rate_limit_check, countdown, machine_id,
              isolation_result, isolate_calls, prompts>>

store_vars == <<lock_file, isolation_events, audit_log, threat_history>>

-----------------------------------------------------------------------------
(* Bounds of the model *)

MaxPad == 2          \* whitespace characters added on each side of a console answer
MaxTally == 11       \* threats of one tier in a tallied batch
MaxSeqLen == 2       \* length of the freely ordered part of a batch
MaxBatchOver == 2    \* batch sizes explored above a threshold
MaxRuns == 2         \* _main.py runs in one behaviour
TickMinutes == 3     \* minutes between two observed clock values
MaxNow == 6          \* last clock value
MaxEvents == 11      \* rows of isolation_events written by direct calls
MaxAudit == 2        \* rows of audit_log written by direct calls

-----------------------------------------------------------------------------
(* Python values *)

None == "None"
TypeError == "TypeError"

Range(s) == {s[k] : k \in 1..Len(s)}

Repeat(x, n) == [k \in 1..n |-> x]

SeqsUpTo(S, n) == UNION {[1..k -> S] : k \in 0..n}

UPPERCASE == <<"A", "B", "C", "D", "E", "F", "G", "H", "I", "J", "K", "L", "M",
               "N", "O", "P", "Q", "R", "S", "T", "U", "V", "W", "X", "Y", "Z">>
LOWERCASE == <<"a", "b", "c", "d", "e", "f", "g", "h", "i", "j", "k", "l", "m",
               "n", "o", "p", "q", "r", "s", "t", "u", "v", "w", "x", "y", "z">>

WHITESPACE == {" ", "\t"}

\* str.lower() on one character
char_lower(c) ==
    IF \E k \in 1..Len(UPPERCASE) : UPPERCASE[k] = c
    THEN LOWERCASE[CHOOSE k \in 1..Len(UPPERCASE) : UPPERCASE[k] = c]
    ELSE c

char_upper(c) ==
    IF \E k \in 1..Len(LOWERCASE) : LOWERCASE[k] = c
    THEN UPPERCASE[CHOOSE k \in 1..Len(LOWERCASE) : LOWERCASE[k] = c]
    ELSE c

\* str.lower()
str_lower(s) == [k \in 1..Len(s) |-> char_lower(s[k])]

RECURSIVE str_lstrip(_)
str_lstrip(s) ==
    IF s # <<>> /\ Head(s) \in WHITESPACE THEN str_lstrip(Tail(s)) ELSE s

RECURSIVE str_rstrip(_)
str_rstrip(s) ==
    IF s # <<>> /\ s[Len(s)] \in WHITESPACE
    THEN str_rstrip(SubSeq(s, 1, Len(s) - 1))
    ELSE s

\* str.strip()
str_strip(s) == str_rstrip(str_lstrip(s))

\* str.startswith(p)
str_startswith(s, p) == Len(s) >= Len(p) /\ SubSeq(s, 1, Len(p)) = p

\* every spelling of w that differs from it in letter case only
CaseVariants(w) ==
    {[k \in 1..Len(w) |-> IF up[k] THEN char_upper(w[k]) ELSE w[k]] :
        up \in [1..Len(w) -> BOOLEAN]}

critical == <<"c", "r", "i", "t", "i", "c", "a", "l">>
high == <<"h", "i", "g", "h">>
medium == <<"m", "e", "d", "i", "u", "m">>
low == <<"l", "o", "w">>

-----------------------------------------------------------------------------
(* GUARDRAILS.py: limits and confidence rules *)

per_5_minutes == 5
per_hour == 10
per_day == 15
batch_size_max == 50
high_threat_count_max == 10

\* the literal of GUARDRAILS.py line 260
mass_exception_min == 10

\* CONFIDENCE_RULES.get(confidence_lower, "require_confirmation")
CONFIDENCE_RULES_get_lowconfirm(confidence_lower) ==
    IF confidence_lower = critical THEN "auto_isolate" ELSE "require_confirmation"

CONFIDENCE_RULES_get(confidence_lower) ==
    CASE confidence_lower = critical -> "auto_isolate"
      [] confidence_lower = high -> "require_confirmation"
      [] confidence_lower = medium -> "require_confirmation"
      [] confidence_lower = low -> "no_auto_isolate"
      [] OTHER -> "require_confirmation"

should_auto_isolate_nolower(confidence) ==
    CONFIDENCE_RULES_get(confidence) = "auto_isolate"

should_auto_isolate(confidence) ==
    CONFIDENCE_RULES_get(str_lower(confidence)) = "auto_isolate"

requires_confirmation_failopen(confidence) ==
    str_lower(confidence) \in {high, medium}

requires_confirmation(confidence) ==
    CONFIDENCE_RULES_get(str_lower(confidence)) = "require_confirmation"

check_batch_size_unlimited(threat_count) ==
    [allowed |-> TRUE, warned |-> threat_count > high_threat_count_max]

check_batch_size_ge(threat_count) ==
    IF threat_count >= batch_size_max
    THEN [allowed |-> FALSE, warned |-> FALSE]
    ELSE [allowed |-> TRUE, warned |-> threat_count > high_threat_count_max]

\* check_batch_size: "warned" is the widespread-incident warning it prints
check_batch_size(threat_count) ==
    IF threat_count > batch_size_max
    THEN [allowed |-> FALSE, warned |-> FALSE]
    ELSE [allowed |-> TRUE, warned |-> threat_count > high_threat_count_max]

\* [t for t in threats if t.get('confidence', '').lower() == tier]
RECURSIVE threats_of_tier(_, _)
threats_of_tier(threats, tier) ==
    IF threats = <<>> THEN <<>>
    ELSE IF str_lower(Head(threats).confidence) = tier
         THEN <<Head(threats)>> \o threats_of_tier(Tail(threats), tier)
         ELSE threats_of_tier(Tail(threats), tier)

\* threat.get('device_name') or device_name
device_of(threat, device_name) ==
    IF threat.device_name # None THEN threat.device_name ELSE device_name

check_mass_isolation_exception_highonly(threats, device_name) ==
    LET high_threats == threats_of_tier(threats, high)
        critical_threats == threats_of_tier(threats, critical)
    IN  [exception_applies |-> Len(high_threats) >= mass_exception_min,
         high_count |-> Len(high_threats),
         critical_count |-> Len(critical_threats),
         total_high_critical |-> Len(high_threats) + Len(critical_threats),
         total_devices |-> 0,
         threat_summary |-> <<>>]

check_mass_isolation_exception(threats, device_name) ==
    LET high_threats == threats_of_tier(threats, high)
        critical_threats == threats_of_tier(threats, critical)
        high_count == Len(high_threats)
        critical_count == Len(critical_threats)
        total_high_critical == high_count + critical_count
        unique_devices == {device_of(threats[k], device_name) : k \in 1..Len(threats)}
                              \ {None}
        both == critical_threats \o high_threats
    IN  [exception_applies |-> total_high_critical >= mass_exception_min,
         high_count |-> high_count,
         critical_count |-> critical_count,
         total_high_critical |-> total_high_critical,
         total_devices |-> Cardinality(unique_devices),
         threat_summary |-> SubSeq(both, 1, IF Len(both) < 10 THEN Len(both) ELSE 10)]

PHRASE == <<"C", "O", "N", "F", "I", "R", "M", " ", "M", "A", "S", "S", " ",
            "I", "S", "O", "L", "A", "T", "I", "O", "N">>

mass_countdown_seconds == 5

confirm_mass_isolation_anycase(typed) ==
    LET user_input == str_strip(typed)
    IN  [approved |-> str_lower(user_input) = str_lower(PHRASE),
         user_input |-> user_input]

\* confirm_mass_isolation, from the input() call on: typed is the line read
confirm_mass_isolation(typed) ==
    LET user_input == str_strip(typed)
    IN  [approved |-> user_input = PHRASE, user_input |-> user_input]

-----------------------------------------------------------------------------
(* notifications/alert_manager.py *)

\* positional parameters without a default
send_email_alert_params == 3
alert_rate_limit_exceeded_params == 3

send_email_alert_defaulted(given) == "False"

\* send_email_alert called with `given` arguments: a call that leaves a
\* parameter unbound raises TypeError; a bound call returns False on every
\* path that can be taken (not configured, or the misspelt send_messgae
\* raising inside the try block)
send_email_alert(given) ==
    IF given < send_email_alert_params THEN TypeError ELSE "False"

alert_rate_limit_exceeded_defaulted(given) == "False"

\* every alert_* function ends in send_email_alert(subject, body)
alert_rate_limit_exceeded(given) ==
    IF given < alert_rate_limit_exceeded_params THEN TypeError
    ELSE send_email_alert(2)

alert_isolation_declined == send_email_alert(2)

alert_mass_isolation_attempt == send_email_alert(2)

alert_daily_limit_reached == send_email_alert(2)

alert_mass_isolation_decision == send_email_alert(2)

-----------------------------------------------------------------------------
(* database/db_manager.py *)

window_5_minutes == 5
window_1_hour == 60
window_24_hours == 1440

\* the row log_action inserts
audit_row(t, action_type, device_name, details) ==
    [timestamp |-> t, action_type |-> action_type, user |-> "system",
     device_name |-> device_name, success |-> TRUE, details |-> details]

\* the row log_user_decision inserts
user_decision_row(t, device_name, decision, threat_confidence) ==
    audit_row(t, "user_decision", device_name,
              [decision |-> decision, threat_confidence |-> threat_confidence])

\* the row log_isolation_event inserts
isolation_row(t, user, device_name, action_result, user_decision) ==
    [timestamp |-> t, user |-> user, device_name |-> device_name,
     action_result |-> action_result, user_decision |-> user_decision]

count_isolations_in_window_exclusive(events, t, window, user) ==
    Cardinality({k \in 1..Len(events) :
        /\ events[k].timestamp > t - window
        /\ (user = None \/ events[k].user = user)
        /\ events[k].action_result = "success"})

count_isolations_in_window_anyresult(events, t, window, user) ==
    Cardinality({k \in 1..Len(events) :
        /\ events[k].timestamp >= t - window
        /\ (user = None \/ events[k].user = user)})

count_isolations_in_window_anyuser(events, t, window, user) ==
    Cardinality({k \in 1..Len(events) :
        /\ events[k].timestamp >= t - window
        /\ events[k].action_result = "success"})

\* count_isolations_in_window at time t; user = None is the unfiltered query
count_isolations_in_window(events, t, window, user) ==
    Cardinality({k \in 1..Len(events) :
        /\ events[k].timestamp >= t - window
        /\ (user = None \/ events[k].user = user)
        /\ events[k].action_result = "success"})

-----------------------------------------------------------------------------
(* GUARDRAILS.py: lockout and rate limiting *)

\* LOCK_FILE exists
LockEngaged == lock_file # <<>>

check_lockout_never(lf) == FALSE

\* check_lockout: LOCK_FILE.exists()
check_lockout(lf) == lf # <<>>

create_lockout_toggle(lf, audit, t, reason) ==
    [lock_file |-> IF lf = <<>> THEN <<[time |-> t, reason |-> reason]>> ELSE <<>>,
     audit_log |-> Append(audit, audit_row(t, "agent_lockout", None, reason))]

\* create_lockout: write_text replaces the file, log_action appends a row
create_lockout(lf, audit, t, reason) ==
    [lock_file |-> <<[time |-> t, reason |-> reason]>>,
     audit_log |-> Append(audit, audit_row(t, "agent_lockout", None, reason))]

\* the literal of GUARDRAILS.py line 154
lockout_multiplier == 2

denied(reason, count, lf, audit) ==
    [outcome |-> "return", allowed |-> FALSE, reason |-> reason,
     current_count |-> count, lock_file |-> lf, audit_log |-> audit]

raised(lf, audit) ==
    [outcome |-> TypeError, lock_file |-> lf, audit_log |-> audit]

\* check_isolation_rate_limits(user) at time t: the value returned (or the
\* exception that leaves it) with the lock file and audit log it leaves behind
check_isolation_rate_limits(lf, events, audit, t, user) ==
    LET count_5min == count_isolations_in_window(events, t, window_5_minutes, user)
        count_1hour == count_isolations_in_window(events, t, window_1_hour, user)
        count_24hour == count_isolations_in_window(events, t, window_24_hours, user)
        locked == create_lockout(lf, audit, t, <<"Excessive isolation rate", count_5min>>)
    IN  IF check_lockout(lf) THEN denied("Agent is locked", 0, lf, audit)
        ELSE IF count_5min >= per_5_minutes THEN
            IF alert_rate_limit_exceeded(2) = TypeError THEN raised(lf, audit)
            ELSE IF count_5min > per_5_minutes * lockout_multiplier THEN
                IF alert_mass_isolation_attempt = TypeError
                THEN raised(locked.lock_file, locked.audit_log)
                ELSE denied("5-minute limit exceeded", count_5min,
                            locked.lock_file, locked.audit_log)
            ELSE denied("5-minute limit exceeded", count_5min, lf, audit)
        ELSE IF count_1hour > per_hour THEN
            IF alert_rate_limit_exceeded(2) = TypeError THEN raised(lf, audit)
            ELSE denied("Hourly limit exceeded", count_1hour, lf, audit)
        ELSE IF count_24hour > per_day THEN
            IF alert_daily_limit_reached = TypeError THEN raised(lf, audit)
            ELSE denied("Daily limit reached", count_24hour, lf, audit)
        ELSE [outcome |-> "return", allowed |-> TRUE, reason |-> "Within rate limits",
              current_count |-> count_5min, lock_file |-> lf, audit_log |-> audit]

-----------------------------------------------------------------------------
(* Inputs *)

NoQuery == [about |-> "none", device_name |-> None]

threat(confidence, device_name) ==
    [confidence |-> confidence, device_name |-> device_name]

str_upper(s) == [k \in 1..Len(s) |-> char_upper(s[k])]

unknown == <<"u", "n", "k", "n", "o", "w", "n">>

\* strings that are no spelling of a tier name
Unrecognized ==
    {<<>>, unknown, <<"i", "n", "f", "o">>, <<"c", "r", "i", "t">>,
     critical \o <<" ">>, <<" ">> \o low, high \o high}

TierNames == {critical, high, medium, low}

ConfidenceInputs == UNION {CaseVariants(w) : w \in TierNames} \cup Unrecognized

\* batches of nC critical, nO other and nH high threats
TallyBatches ==
    {Repeat(tc, nC) \o Repeat(to, nO) \o Repeat(th, nH) :
        <<nC, nH, nO>> \in (0..MaxTally) \X (0..MaxTally) \X (0..MaxSeqLen),
        tc \in {threat(critical, None), threat(str_upper(critical), "host-b")},
        th \in {threat(high, "host-b"), threat(<<"H", "i", "g", "h">>, None)},
        to \in {threat(medium, "host-c"), threat(low, None), threat(unknown, None)}}

Answers ==
    {PHRASE, str_lower(PHRASE), <<>>,
     <<"C", "o", "n", "f", "i", "r", "m", " ", "M", "a", "s", "s", " ",
       "I", "s", "o", "l", "a", "t", "i", "o", "n">>,
     <<"C", "O", "N", "F", "I", "R", "M">>,
     <<"C", "O", "N", "F", "I", "R", "M", " ", " ", "M", "A", "S", "S", " ",
       "I", "S", "O", "L", "A", "T", "I", "O", "N">>,
     <<"C", "O", "N", "F", "I", "R", "M", "\t", "M", "A", "S", "S", " ",
       "I", "S", "O", "L", "A", "T", "I", "O", "N">>,
     PHRASE \o <<"!">>, <<"y", "e", "s">>, <<"y">>}

\* lines a user can type: an answer with whitespace around it
TypedLines ==
    {l \o a \o r : l \in SeqsUpTo(WHITESPACE, MaxPad),
                   r \in SeqsUpTo(WHITESPACE, MaxPad), a \in Answers}

-----------------------------------------------------------------------------
(* The pure functions of GUARDRAILS.py, each applied to an input *)

InitStore ==
    /\ isolation_events = <<>>
    /\ audit_log = <<>>
    /\ threat_history = 0
    /\ now = 0

InitLocals ==
    /\ pc = "startup"
    /\ runs = 1
    /\ query_context = NoQuery
    /\ findings = <<>>
    /\ idx = 1
    /\ machine_is_isolated = FALSE
    /\ mass_isolation_approved = FALSE
    /\ rate_limit_check = [outcome |-> "none"]
    /\ countdown = 0
    /\ machine_id = None
    /\ isolation_result = [outcome |-> "none"]
    /\ isolate_calls = <<>>
    /\ prompts = <<>>

\* the second process: its position, the count its check returned and the
\* result of its quarantine call
peer_at(position, current_count, success) ==
    [pc |-> position, current_count |-> current_count, success |-> success]

\* no second process
NoPeer == peer_at("absent", -1, FALSE)

InitRun ==
    /\ InitLocals
    /\ peer = NoPeer

\* the calls to make: one function and one input each
PendingCalls ==
    {[op |-> "pending", fn |-> "classify", arg |-> c] : c \in ConfidenceInputs}
    \cup {[op |-> "pending", fn |-> "check_batch_size", arg |-> n] :
             n \in 0..(batch_size_max + MaxBatchOver)}
    \cup {[op |-> "pending", fn |-> "check_mass_isolation_exception",
           arg |-> [threats |-> b, device_name |-> d]] :
             b \in TallyBatches, d \in {None, "host-a"}}
    \cup {[op |-> "pending", fn |-> "confirm_mass_isolation", arg |-> typed] :
             typed \in TypedLines}

InitFn ==
    /\ InitStore
    /\ InitRun
    /\ lock_file = <<>>
    /\ call \in PendingCalls

Pending(fn) == call.op = "pending" /\ call.fn = fn

\* _main.py lines 236-237, test_workflows.py lines 230-231
Classify ==
    /\ Pending("classify")
    /\ call' = [op |-> "classify", confidence |-> call.arg,
                should_ask_confirmation |-> requires_confirmation(call.arg),
                can_auto_isolate |-> should_auto_isolate(call.arg)]
    /\ UNCHANGED <<store_vars, run_vars, now, peer>>

CallCheckBatchSize ==
    /\ Pending("check_batch_size")
    /\ call' = [op |-> "check_batch_size", threat_count |-> call.arg,
                ret |-> check_batch_size(call.arg)]
    /\ UNCHANGED <<store_vars, run_vars, now, peer>>

CallCheckMassIsolationException ==
    /\ Pending("check_mass_isolation_exception")
    /\ call' = [op |-> "check_mass_isolation_exception",
                threats |-> call.arg.threats,
                device_name |-> call.arg.device_name,
                ret |-> check_mass_isolation_exception(call.arg.threats,
                                                       call.arg.device_name)]
    /\ UNCHANGED <<store_vars, run_vars, now, peer>>

CallConfirmMassIsolation ==
    /\ Pending("confirm_mass_isolation")
    /\ call' = [op |-> "confirm_mass_isolation", typed |-> call.arg,
                ret |-> confirm_mass_isolation(call.arg)]
    /\ UNCHANGED <<store_vars, run_vars, now, peer>>

NextFn ==
    \/ Classify
    \/ CallCheckBatchSize
    \/ CallCheckMassIsolationException
    \/ CallConfirmMassIsolation

SpecFn == InitFn /\ [][NextFn]_vars

-----------------------------------------------------------------------------
(* Claims about the pure functions *)

\* confidence spells the tier name w, letter case aside
IsTier(confidence, w) ==
    /\ Len(confidence) = Len(w)
    /\ \A k \in 1..Len(w) : confidence[k] \in {w[k], char_upper(w[k])}

\* C6: should_auto_isolate is true exactly for the spellings of 'critical' in
\* any letter case; requires_confirmation is true for 'high', 'medium' and
\* every string that spells no tier; for 'low' both are false; the two are
\* never both true.
C6_ConfidencePolicy ==
    call.op = "classify" =>
        /\ call.can_auto_isolate <=> IsTier(call.confidence, critical)
        /\ (IsTier(call.confidence, high) \/ IsTier(call.confidence, medium))
               => call.should_ask_confirmation
        /\ (\A w \in TierNames : ~IsTier(call.confidence, w))
               => call.should_ask_confirmation
        /\ IsTier(call.confidence, low)
               => (~call.can_auto_isolate /\ ~call.should_ask_confirmation)
        /\ ~(call.can_auto_isolate /\ call.should_ask_confirmation)

C6_Witness ==
    /\ call.op = "classify"
    /\ call.confidence = <<"C", "r", "i", "t", "i", "c", "a", "L">>
    /\ call.can_auto_isolate
    /\ ~call.should_ask_confirmation

HighOrCritical(threats) ==
    {k \in 1..Len(threats) :
        IsTier(threats[k].confidence, high) \/ IsTier(threats[k].confidence, critical)}

\* C8: check_mass_isolation_exception returns exception_applies = true exactly
\* when the threats whose confidence spells 'high' or 'critical' (in any letter
\* case) number at least 10; threats of other tiers do not count.
C8_MassException ==
    call.op = "check_mass_isolation_exception" =>
        (call.ret.exception_applies <=>
            Cardinality(HighOrCritical(call.threats)) >= 10)

C8_Witness ==
    /\ call.op = "check_mass_isolation_exception"
    /\ Cardinality(HighOrCritical(call.threats)) = 10
    /\ Len(call.threats) > 10
    /\ call.ret.high_count > 0
    /\ call.ret.critical_count > 0
    /\ call.ret.exception_applies

\* typed is the phrase with only whitespace before and after it
PhraseInWhitespace(typed) ==
    \E a \in 0..Len(typed) :
        /\ a + Len(PHRASE) <= Len(typed)
        /\ \A k \in 1..a : typed[k] \in WHITESPACE
        /\ SubSeq(typed, a + 1, a + Len(PHRASE)) = PHRASE
        /\ \A k \in (a + Len(PHRASE) + 1)..Len(typed) : typed[k] \in WHITESPACE

\* C9 as claimed: confirm_mass_isolation approves exactly when the typed text
\* is the phrase, so a line that differs by surrounding whitespace declines.
C9_ExactInput ==
    call.op = "confirm_mass_isolation" =>
        (call.ret.approved <=> call.typed = PHRASE)

\* C9 as amended: confirm_mass_isolation approves exactly when the typed line
\* is the phrase with nothing but whitespace before and after it; the empty
\* line, other letter case and any other text decline.
C9_StrippedInput ==
    call.op = "confirm_mass_isolation" =>
        (call.ret.approved <=> PhraseInWhitespace(call.typed))

C9_Witness ==
    /\ call.op = "confirm_mass_isolation"
    /\ call.typed = <<" ">> \o PHRASE \o <<"\t">>
    /\ call.ret.approved

\* C10: check_batch_size(n) denies exactly when n > 50; for 10 < n <= 50 it
\* allows with the widespread-incident warning; for n <= 10 it allows without.
C10_BatchSize ==
    call.op = "check_batch_size" =>
        /\ call.ret.allowed <=> call.threat_count <= 50
        /\ call.ret.warned <=> (10 < call.threat_count /\ call.threat_count <= 50)

C10_Witness ==
    /\ call.op = "check_batch_size"
    /\ call.threat_count = 50
    /\ call.ret.allowed
    /\ call.ret.warned

-----------------------------------------------------------------------------
(* _main.py: one run of the agent, and the next run after it ends *)

QueryContexts ==
    {[about |-> "host", device_name |-> "host-a"],
     [about |-> "user", device_name |-> None],
     [about |-> "nsg", device_name |-> None]}

ThreatPool ==
    {threat(<<"C", "r", "i", "t", "i", "c", "a", "l">>, None),
     threat(high, "host-b"),
     threat(medium, None),
     threat(low, None),
     threat(unknown, "host-b")}

\* hunt results of a first run: every short batch, batches around the
\* mass-exception threshold, and batches around the batch-size limit
RunBatches ==
    SeqsUpTo(ThreatPool, MaxSeqLen)
    \cup {head \o Repeat(threat(high, None), n) :
             head \in SeqsUpTo(ThreatPool, 1),
             n \in (mass_exception_min - MaxSeqLen)..mass_exception_min}
    \cup {Repeat(threat(low, "host-b"), n) :
             n \in batch_size_max..(batch_size_max + MaxBatchOver)}

\* hunt results of a later run
SmallBatches == SeqsUpTo(ThreatPool, 1)

\* lines typed at the mass confirmation of a run
MassLines == {PHRASE, <<" ">> \o PHRASE, str_lower(PHRASE), <<>>}

\* lines typed at the per-threat prompt
PromptLines ==
    {<<"y", "e", "s">>, <<"Y">>, <<" ", "y">>, <<"n", "o">>, <<>>, <<"o", "k">>}

Terminal ==
    {"exit_locked", "exit_empty", "exit_batch", "exit_declined", "done", "crashed"}

Running == pc \notin Terminal \cup {"startup"}

Init ==
    /\ InitStore
    /\ InitRun
    /\ lock_file \in {<<>>, <<[time |-> 0, reason |-> "Mass isolation attempt detected"]>>}
    /\ call = [op |-> "none"]

\* lines 28-30
Startup ==
    /\ pc = "startup"
    /\ pc' = IF check_lockout(lock_file) THEN "exit_locked" ELSE "hunt"
    /\ UNCHANGED <<store_vars, now, runs, query_context, findings, idx,
                   machine_is_isolated, mass_isolation_approved, rate_limit_check,
                   countdown, machine_id, isolation_result, isolate_calls,
                   prompts, call, peer>>

\* lines 50-132 when the query or the hunt returns nothing, or validation exits
HuntNothing ==
    /\ pc = "hunt"
    /\ pc' = "exit_empty"
    /\ UNCHANGED <<store_vars, now, runs, query_context, findings, idx,
                   machine_is_isolated, mass_isolation_approved, rate_limit_check,
                   countdown, machine_id, isolation_result, isolate_calls,
                   prompts, call, peer>>

\* lines 50-132: the query context and the findings of the hunt
HuntFrom(batches) ==
    /\ pc = "hunt"
    /\ \E q \in QueryContexts, f \in batches \ {<<>>} :
           /\ query_context' = q
           /\ findings' = f
    /\ pc' = "batch_check"
    /\ UNCHANGED <<store_vars, now, runs, idx, machine_is_isolated,
                   mass_isolation_approved, rate_limit_check, countdown,
                   machine_id, isolation_result, isolate_calls, prompts, call, peer>>

Hunt == HuntFrom(IF runs = 1 THEN RunBatches ELSE SmallBatches)

\* lines 137-153: check_batch_size, then save_threat for every finding
BatchCheck ==
    /\ pc = "batch_check"
    /\ IF check_batch_size(Len(findings)).allowed
       THEN /\ threat_history' = threat_history + Len(findings)
            /\ pc' = "mass_check"
       ELSE /\ pc' = "exit_batch"
            /\ UNCHANGED threat_history
    /\ UNCHANGED <<lock_file, isolation_events, audit_log, now, runs,
                   query_context, findings, idx, machine_is_isolated,
                   mass_isolation_approved, rate_limit_check, countdown,
                   machine_id, isolation_result, isolate_calls, prompts, call, peer>>

\* lines 167-178 and 205-212: the exception check; the loop's flags are set
\* when no confirmation is needed
MassCheck ==
    /\ pc = "mass_check"
    /\ mass_isolation_approved' = FALSE
    /\ IF check_mass_isolation_exception(findings, query_context.device_name)
              .exception_applies
       THEN /\ pc' = "mass_countdown"
            /\ countdown' = mass_countdown_seconds
            /\ UNCHANGED <<idx, machine_is_isolated>>
       ELSE /\ pc' = "loop"
            /\ idx' = 1
            /\ machine_is_isolated' = FALSE
            /\ UNCHANGED countdown
    /\ UNCHANGED <<store_vars, now, runs, query_context, findings,
                   rate_limit_check, machine_id, isolation_result,
                   isolate_calls, prompts, call, peer>>

countdown_elapsed_early(remaining) == TRUE

\* GUARDRAILS.py lines 331-340: input() is reached when the for loop over
\* range(5, 0, -1) is exhausted
countdown_elapsed(remaining) == remaining = 0

\* GUARDRAILS.py lines 331-333: one time.sleep(1) of the countdown
MassSleep ==
    /\ pc = "mass_countdown"
    /\ countdown > 0
    /\ countdown' = countdown - 1
    /\ UNCHANGED <<store_vars, now, pc, runs, query_context, findings, idx,
                   machine_is_isolated, mass_isolation_approved, rate_limit_check,
                   machine_id, isolation_result, isolate_calls, prompts, call, peer>>

\* GUARDRAILS.py lines 340-357 and _main.py lines 179-212: the line is read,
\* the decision is notified, then logged, and the run ends or goes on
MassConfirm ==
    /\ pc = "mass_countdown"
    /\ countdown_elapsed(countdown)
    /\ \E typed \in MassLines :
        LET decision == confirm_mass_isolation(typed)
            word == IF decision.approved THEN "approved" ELSE "denied"
        IN  /\ mass_isolation_approved' = decision.approved
            /\ IF alert_mass_isolation_decision = TypeError
               THEN /\ pc' = "crashed"
                    /\ UNCHANGED <<audit_log, idx, machine_is_isolated>>
               ELSE /\ audit_log' = Append(audit_log,
                           user_decision_row(now, query_context.device_name,
                                             word, "high/critical"))
                    /\ pc' = IF decision.approved THEN "loop" ELSE "exit_declined"
                    /\ idx' = 1
                    /\ machine_is_isolated' = FALSE
    /\ UNCHANGED <<lock_file, isolation_events, threat_history, now, runs,
                   query_context, findings, rate_limit_check, countdown,
                   machine_id, isolation_result, isolate_calls, prompts, call, peer>>

check_result_stale(r) == rate_limit_check

\* what the loop keeps of a rate-limit check
check_result(r) ==
    IF r.outcome = "return"
    THEN [outcome |-> "return", allowed |-> r.allowed, reason |-> r.reason,
          current_count |-> r.current_count, idx |-> idx]
    ELSE [outcome |-> r.outcome, idx |-> idx]

\* lines 214-240 and 340-356: one pass of the loop up to the point where it
\* isolates, prompts, skips, breaks or raises
LoopStep ==
    /\ pc = "loop"
    /\ idx <= Len(findings)
    /\ LET threat_confidence == str_lower(findings[idx].confidence)
           r == check_isolation_rate_limits(lock_file, isolation_events,
                                            audit_log, now, "cli_user")
       IN  IF query_context.about = "host" \/ mass_isolation_approved
           THEN IF machine_is_isolated
                THEN /\ idx' = idx + 1
                     /\ UNCHANGED <<pc, lock_file, audit_log, rate_limit_check>>
                ELSE /\ rate_limit_check' = check_result(r)
                     /\ lock_file' = r.lock_file
                     /\ audit_log' = r.audit_log
                     /\ IF r.outcome = TypeError
                        THEN pc' = "crashed" /\ UNCHANGED idx
                        ELSE IF ~r.allowed
                        THEN pc' = "done" /\ UNCHANGED idx
                        ELSE IF should_auto_isolate(threat_confidence)
                        THEN pc' = "resolve" /\ UNCHANGED idx
                        ELSE IF requires_confirmation(threat_confidence)
                        THEN pc' = "prompt" /\ UNCHANGED idx
                        ELSE pc' = "loop" /\ idx' = idx + 1
           ELSE /\ idx' = idx + 1
                /\ UNCHANGED <<pc, lock_file, audit_log, rate_limit_check>>
    /\ UNCHANGED <<isolation_events, threat_history, now, runs, query_context,
                   findings, machine_is_isolated, mass_isolation_approved,
                   countdown, machine_id, isolation_result, isolate_calls,
                   prompts, call, peer>>

\* line 358: the loop is exhausted
Complete ==
    /\ pc = "loop"
    /\ idx > Len(findings)
    /\ pc' = "done"
    /\ UNCHANGED <<store_vars, now, runs, query_context, findings, idx,
                   machine_is_isolated, mass_isolation_approved, rate_limit_check,
                   countdown, machine_id, isolation_result, isolate_calls,
                   prompts, call, peer>>

\* lines 281-286 and 321-338: the prompt is answered; a decline is notified,
\* then logged
Prompt ==
    /\ pc = "prompt"
    /\ \E typed \in PromptLines :
        LET confirm == str_lower(str_strip(typed))
            approved == str_startswith(confirm, <<"y">>)
        IN  /\ prompts' = Append(prompts, [idx |-> idx, approved |-> approved])
            /\ IF approved
               THEN pc' = "resolve" /\ UNCHANGED <<idx, audit_log>>
               ELSE IF alert_isolation_declined = TypeError
               THEN pc' = "crashed" /\ UNCHANGED <<idx, audit_log>>
               ELSE /\ audit_log' = Append(audit_log,
                           user_decision_row(now, query_context.device_name,
                               "declined", str_lower(findings[idx].confidence)))
                    /\ pc' = "loop"
                    /\ idx' = idx + 1
    /\ UNCHANGED <<lock_file, isolation_events, threat_history, now, runs,
                   query_context, findings, machine_is_isolated,
                   mass_isolation_approved, rate_limit_check, countdown,
                   machine_id, isolation_result, isolate_calls, call, peer>>

\* lines 245-250 and 287-292: the executor resolves the query's device, or
\* does not find it, and then the loop goes on to the next threat
Resolve ==
    /\ pc = "resolve"
    /\ \E m \in {"machine-1", None} :
        /\ machine_id' = m
        /\ IF m # None
           THEN pc' = "isolate" /\ UNCHANGED idx
           ELSE pc' = "loop" /\ idx' = idx + 1
    /\ UNCHANGED <<store_vars, now, runs, query_context, findings,
                   machine_is_isolated, mass_isolation_approved, rate_limit_check,
                   countdown, isolation_result, isolate_calls, prompts, call, peer>>

isolation_target_of_threat(t, q) == device_of(t, q.device_name)

\* lines 245-248 and 287-290: the device looked up and isolated is the
\* query's, whatever device the threat names
isolation_target(t, q) == q.device_name

\* lines 251 and 293: quarantine_virtual_machine returns success or failure
Isolate ==
    /\ pc = "isolate"
    /\ \E ok \in BOOLEAN : isolation_result' = [success |-> ok]
    /\ isolate_calls' = Append(isolate_calls,
           [idx |-> idx,
            device_name |-> isolation_target(findings[idx], query_context),
            locked |-> LockEngaged,
            rate_limit_check |-> rate_limit_check,
            events_before |-> Len(isolation_events)])
    /\ pc' = "log"
    /\ UNCHANGED <<store_vars, now, runs, query_context, findings, idx,
                   machine_is_isolated, mass_isolation_approved, rate_limit_check,
                   countdown, machine_id, prompts, call, peer>>

\* the user_decision argument of the log_isolation_event calls
logged_decision(auto, success) ==
    IF auto THEN (IF success THEN "auto_approved" ELSE None) ELSE "approved"

isolated_after_unset(flag, success) == flag

\* lines 253-254 and 295-296: machine_is_isolated = True on success only
isolated_after(flag, success) == flag \/ success

\* lines 253-277 and 295-320: the flag is set on success and the event is logged
LogIsolation ==
    /\ pc = "log"
    /\ LET auto == should_auto_isolate(str_lower(findings[idx].confidence))
           ok == isolation_result.success
       IN  /\ machine_is_isolated' = isolated_after(machine_is_isolated, ok)
           /\ isolation_events' = Append(isolation_events,
                  isolation_row(now, "cli_user", query_context.device_name,
                                IF ok THEN "success" ELSE "failed",
                                logged_decision(auto, ok)))
    /\ pc' = "loop"
    /\ idx' = idx + 1
    /\ UNCHANGED <<lock_file, audit_log, threat_history, now, runs,
                   query_context, findings, mass_isolation_approved,
                   rate_limit_check, countdown, machine_id, isolation_result,
                   isolate_calls, prompts, call, peer>>

\* the process has ended and _main.py is started again
Restart ==
    /\ pc \in Terminal
    /\ runs < MaxRuns
    /\ runs' = runs + 1
    /\ pc' = "startup"
    /\ query_context' = NoQuery
    /\ findings' = <<>>
    /\ idx' = 1
    /\ machine_is_isolated' = FALSE
    /\ mass_isolation_approved' = FALSE
    /\ rate_limit_check' = [outcome |-> "none"]
    /\ countdown' = 0
    /\ machine_id' = None
    /\ isolation_result' = [outcome |-> "none"]
    /\ isolate_calls' = <<>>
    /\ prompts' = <<>>
    /\ UNCHANGED <<store_vars, now, call, peer>>

\* time passes while no run is in progress
Tick ==
    /\ pc = "startup"
    /\ now + TickMinutes <= MaxNow
    /\ now' = now + TickMinutes
    /\ UNCHANGED <<store_vars, run_vars, call, peer>>

-----------------------------------------------------------------------------
(* Direct calls of engine functions, made while no run is in progress *)

DEFAULT_REASON == "Mass isolation attempt detected"

Users == {"test_user", "cli_user"}

\* GUARDRAILS.check_lockout()
CallCheckLockout ==
    /\ pc = "startup"
    /\ call' = [op |-> "check_lockout", ret |-> check_lockout(lock_file)]
    /\ UNCHANGED <<store_vars, run_vars, now, peer>>

\* GUARDRAILS.create_lockout(reason)
CallCreateLockout ==
    /\ pc = "startup"
    /\ Len(audit_log) < MaxAudit
    /\ LET after == create_lockout(lock_file, audit_log, now, DEFAULT_REASON)
       IN  /\ lock_file' = after.lock_file
           /\ audit_log' = after.audit_log
    /\ call' = [op |-> "create_lockout", locked_before |-> LockEngaged,
                lock_file_before |-> lock_file]
    /\ UNCHANGED <<isolation_events, threat_history, run_vars, now, peer>>

\* GUARDRAILS.check_isolation_rate_limits(user), as test_workflows.py lines
\* 137 and 175 call it
CallCheckIsolationRateLimits ==
    /\ pc = "startup"
    /\ \E user \in Users :
        LET r == check_isolation_rate_limits(lock_file, isolation_events,
                                             audit_log, now, user)
        IN  /\ lock_file' = r.lock_file
            /\ audit_log' = r.audit_log
            /\ call' = [op |-> "check_isolation_rate_limits", user |-> user,
                        locked_before |-> LockEngaged,
                        ret |-> IF r.outcome = "return"
                                THEN [outcome |-> "return", allowed |-> r.allowed,
                                      reason |-> r.reason,
                                      current_count |-> r.current_count]
                                ELSE [outcome |-> r.outcome]]
    /\ UNCHANGED <<isolation_events, threat_history, run_vars, now, peer>>

\* test_workflows.py lines 160-169: n successful isolation events are logged
\* for one user
SimulateIsolations ==
    /\ pc = "startup"
    /\ \E n \in 1..(MaxEvents - Len(isolation_events)) :
        /\ isolation_events' = isolation_events
               \o Repeat(isolation_row(now, "test_user", "windows-test",
                                       "success", "test_simulation"), n)
        /\ call' = [op |-> "log_isolation_event", user |-> "test_user"]
    /\ UNCHANGED <<lock_file, audit_log, threat_history, run_vars, now, peer>>

InitOps ==
    /\ InitStore
    /\ InitRun
    /\ lock_file = <<>>
    /\ call = [op |-> "none"]

NextOps ==
    \/ CallCheckLockout
    \/ CallCreateLockout
    \/ CallCheckIsolationRateLimits
    \/ SimulateIsolations
    \/ Tick

SpecOps == InitOps /\ [][NextOps]_vars

Next ==
    \/ Startup
    \/ HuntNothing
    \/ Hunt
    \/ BatchCheck
    \/ MassCheck
    \/ MassSleep
    \/ MassConfirm
    \/ LoopStep
    \/ Complete
    \/ Prompt
    \/ Resolve
    \/ Isolate
    \/ LogIsolation
    \/ Restart
    \/ Tick
    \/ CallCheckLockout
    \/ CallCreateLockout

Spec == Init /\ [][Next]_vars

-----------------------------------------------------------------------------
(* Claims about a run of _main.py and about direct calls of the engine *)

\* C1: in a single-caller run the executor's isolate call is never made while
\* the lock is engaged: a run that started locked exits before any isolation,
\* and every isolate call follows a rate-limit check of the same iteration
\* that returned allowed, which it only does when it found no lock
C1_NoIsolationWhileLocked ==
    /\ \A k \in 1..Len(isolate_calls) :
          LET c == isolate_calls[k]
          IN  /\ ~c.locked
              /\ c.rate_limit_check.outcome = "return"
              /\ c.rate_limit_check.idx = c.idx
              /\ c.rate_limit_check.allowed
              /\ c.rate_limit_check.reason # "Agent is locked"
    /\ pc = "exit_locked" => isolate_calls = <<>>
    /\ pc = "isolate" => ~LockEngaged

\* an isolate call has been made for a threat after the first of its batch
C1_Witness ==
    /\ isolate_calls # <<>>
    /\ isolate_calls[Len(isolate_calls)].idx > 1
    /\ ~isolate_calls[Len(isolate_calls)].locked

\* C4: the engine never unlocks itself: a step of any engine operation that
\* starts with the lock engaged ends with the lock engaged
C4_NeverUnlocks == [][LockEngaged => LockEngaged']_vars

\* create_lockout engaged the lock and a later run found it at startup
C4_Witness ==
    /\ call.op = "create_lockout"
    /\ runs > 1
    /\ pc = "exit_locked"
    /\ LockEngaged

AttemptSteps == {"resolve", "isolate", "log"}

\* a step of an attempt either stays in the attempt and logs nothing, or
\* leaves it by appending the one event that mirrors the executor's outcome
AttemptStep ==
    pc \in AttemptSteps =>
       IF pc' \in AttemptSteps
       THEN isolation_events' = isolation_events
       ELSE /\ Len(isolation_events') = Len(isolation_events) + 1
            /\ SubSeq(isolation_events', 1, Len(isolation_events))
                   = isolation_events
            /\ isolation_events'[Len(isolation_events')].action_result
                   = (IF isolation_result'.success THEN "success" ELSE "failed")

\* C5: every threat on which isolation is attempted (Critical, or approved at
\* the prompt) gets exactly one isolation event before the loop moves on, and
\* its action_result is 'success' exactly when the executor reported success
C5_OneEventPerAttempt == [][AttemptStep]_vars

\* successful isolations of a user in the last five minutes, counted on the
\* events themselves
Successes5(user) ==
    Cardinality({k \in 1..Len(isolation_events) :
                    /\ isolation_events[k].user = user
                    /\ isolation_events[k].action_result = "success"
                    /\ now - isolation_events[k].timestamp <= window_5_minutes})

CheckedUnlocked ==
    /\ call.op = "check_isolation_rate_limits"
    /\ ~call.locked_before

\* C2: a check that finds more than 10 successful isolations in five minutes
\* is denied and engages the lock, and a check made while the lock is engaged
\* is denied whatever the counts
C2_LockoutAtTwiceTheLimit ==
    /\ (CheckedUnlocked /\ Successes5(call.user) > lockout_multiplier * per_5_minutes)
          => /\ call.ret.outcome = "return"
             /\ ~call.ret.allowed
             /\ LockEngaged
    /\ (call.op = "check_isolation_rate_limits" /\ call.locked_before)
          => /\ call.ret.outcome = "return"
             /\ ~call.ret.allowed

\* C3: a check that finds 5 to 10 successful isolations in five minutes
\* returns allowed = false with current_count equal to the count, and the
\* lock is not engaged
C3_DeniedWithoutLockout ==
    (/\ CheckedUnlocked
     /\ Successes5(call.user) >= per_5_minutes
     /\ Successes5(call.user) <= lockout_multiplier * per_5_minutes)
       => /\ call.ret.outcome = "return"
          /\ ~call.ret.allowed
          /\ call.ret.current_count = Successes5(call.user)
          /\ ~LockEngaged

AgentLockoutRows ==
    {k \in 1..Len(audit_log) : audit_log[k].action_type = "agent_lockout"}

\* C7: create_lockout is idempotent: after any number of calls there is one
\* lock record and one 'agent_lockout' audit record, and a call made while
\* the lock is engaged leaves the lock record as it was
C7_CreateLockoutIdempotent ==
    call.op = "create_lockout"
       => /\ Len(lock_file) = 1
          /\ Cardinality(AgentLockoutRows) = 1
          /\ call.locked_before => lock_file = call.lock_file_before

-----------------------------------------------------------------------------
(* Claims about notifications, the confirmation delay and the loop *)

UserDecisionRows(decision) ==
    {k \in 1..Len(audit_log) :
        /\ audit_log[k].action_type = "user_decision"
        /\ audit_log[k].details.decision = decision}

\* C11: a failing notification never blocks a governance decision: no run is
\* ended by an error of a notifier call, and a declined confirmation is
\* logged as a 'declined' user decision whatever the notifier did
C11_NotifierNeverBlocks ==
    /\ pc # "crashed"
    /\ \A k \in 1..Len(prompts) :
          ~prompts[k].approved => UserDecisionRows("declined") # {}

\* a step around the mass confirmation: the countdown starts at 5, goes down
\* one sleep at a time, and the confirmation is left only when it is at 0
MassDelayStep ==
    /\ (pc # "mass_countdown" /\ pc' = "mass_countdown") => countdown' = 5
    /\ (pc = "mass_countdown" /\ pc' = "mass_countdown")
          => (countdown > 0 /\ countdown' = countdown - 1)
    /\ (pc = "mass_countdown" /\ pc' # "mass_countdown") => countdown = 0

\* C13: the mass confirmation is never resolved before the mandatory delay
\* has elapsed: the input is read and the decision returned only after all 5
\* one-second sleeps
C13_DelayBeforeConfirmation == [][MassDelayStep]_vars

\* a mass confirmation has been answered with the phrase after the countdown
C13_Witness ==
    /\ check_mass_isolation_exception(findings, query_context.device_name)
           .exception_applies
    /\ pc \notin {"hunt", "batch_check", "mass_check", "mass_countdown"}
    /\ mass_isolation_approved
    /\ countdown = 0

\* the executor reported a failure for the k-th isolate call of the run
CallFailed(k) ==
    /\ Len(isolation_events) > isolate_calls[k].events_before
    /\ isolation_events[isolate_calls[k].events_before + 1].action_result = "failed"

\* the k-th isolate call of the run was made without a prompt
CallAutomatic(k) ==
    should_auto_isolate(str_lower(findings[isolate_calls[k].idx].confidence))

\* C15: no automatic retries: within a run isolate is called at most once per
\* threat, and after a failure for a device no further automatic isolate call
\* is made for that device
C15_NoAutomaticRetry ==
    \A j, k \in 1..Len(isolate_calls) :
       j < k =>
          /\ isolate_calls[j].idx # isolate_calls[k].idx
          /\ (CallFailed(j) /\ isolate_calls[j].device_name = isolate_calls[k].device_name)
                => ~CallAutomatic(k)

MassDeclined ==
    /\ pc \notin {"startup", "hunt", "batch_check", "mass_check", "mass_countdown"}
    /\ findings # <<>>
    /\ check_mass_isolation_exception(findings, query_context.device_name)
           .exception_applies
    /\ ~mass_isolation_approved

\* C19: a declined mass confirmation aborts the batch with the decision
\* logged and notified and zero isolations: a 'denied' user decision is in
\* the audit log, the notification was issued, and the run made no rate-limit
\* check and no isolate call and logged no isolation event
C19_MassDeclineLogged ==
    MassDeclined =>
       /\ pc = "exit_declined"
       /\ UserDecisionRows("denied") # {}
       /\ alert_mass_isolation_decision # TypeError
       /\ rate_limit_check.outcome = "none"
       /\ isolate_calls = <<>>

Windows == {window_5_minutes, window_1_hour, window_24_hours}

\* the step that handles a failure reported by the executor
FailureStep ==
    (pc = "log" /\ pc' # "log" /\ ~isolation_result.success) =>
       /\ Len(isolation_events') = Len(isolation_events) + 1
       /\ SubSeq(isolation_events', 1, Len(isolation_events)) = isolation_events
       /\ isolation_events'[Len(isolation_events')].action_result = "failed"
       /\ \A w \in Windows, u \in Users \cup {None} :
             count_isolations_in_window(isolation_events', now', w, u)
                = count_isolations_in_window(isolation_events, now, w, u)
       /\ pc' = "loop"
       /\ idx' = idx + 1
       /\ machine_is_isolated' = machine_is_isolated

\* C20: when the executor reports a failure, a 'failed' isolation event is
\* appended, no window count changes, and the loop goes on to the next threat
C20_FailureLoggedNotCounted == [][FailureStep]_vars

\* after a failed isolate call the next threat of the batch got its check
C20_Witness ==
    /\ isolate_calls # <<>>
    /\ CallFailed(1)
    /\ rate_limit_check.outcome = "return"
    /\ rate_limit_check.idx > isolate_calls[1].idx

-----------------------------------------------------------------------------
(* Runs of _main.py by one actor on top of the successes of earlier runs *)

\* minutes between the successes of the earlier runs
HistorySpacings == {1, 2, 7}

\* k successful isolations of cli_user, one per earlier run, `spacing` minutes
\* apart from minute 0 on
History(spacing, k) ==
    [i \in 1..k |-> isolation_row((i - 1) * spacing, "cli_user", "host-a",
                                  "success", "auto_approved")]

\* every check of an earlier run returned allowed: at most per_5_minutes
\* successes one minute apart, per_hour two minutes apart, per_day seven apart
HistoryLengths(spacing) ==
    IF spacing = 1 THEN 0..per_5_minutes
    ELSE IF spacing = 2 THEN 0..per_hour
    ELSE 0..per_day

InitGoverned ==
    /\ InitRun
    /\ lock_file = <<>>
    /\ audit_log = <<>>
    /\ threat_history = 0
    /\ call = [op |-> "none"]
    /\ \E spacing \in HistorySpacings :
          \E k \in HistoryLengths(spacing) :
             /\ isolation_events = History(spacing, k)
             /\ now = k * spacing

\* findings of a run on top of a history
GovernedPool ==
    {threat(<<"C", "r", "i", "t", "i", "c", "a", "l">>, None),
     threat(high, "host-b"),
     threat(low, None)}

\* hunt results of a run on top of a history
HuntShort == HuntFrom(SeqsUpTo(GovernedPool, MaxSeqLen))

NextGoverned ==
    \/ Startup
    \/ HuntNothing
    \/ HuntShort
    \/ BatchCheck
    \/ MassCheck
    \/ LoopStep
    \/ Complete
    \/ Prompt
    \/ Resolve
    \/ Isolate
    \/ LogIsolation

SpecGoverned == InitGoverned /\ [][NextGoverned]_vars

\* successful isolations of a user in the `window` minutes up to minute t
SuccessesIn(user, window, t) ==
    Cardinality({k \in 1..Len(isolation_events) :
                    /\ isolation_events[k].user = user
                    /\ isolation_events[k].action_result = "success"
                    /\ isolation_events[k].timestamp <= t
                    /\ isolation_events[k].timestamp >= t - window})

\* C14: after any sequence of governed runs of one actor, the actor has at
\* most 10 successful isolations inside any 1-hour window and at most 15
\* inside any 24-hour window
C14_HourAndDayLimits ==
    \A k \in 1..Len(isolation_events) :
       /\ SuccessesIn("cli_user", window_1_hour, isolation_events[k].timestamp)
             <= per_hour
       /\ SuccessesIn("cli_user", window_24_hours, isolation_events[k].timestamp)
             <= per_day

\* C16: with no lock and fewer than 5 successes in five minutes, the check
\* denies when the hour holds more than 10, else denies when the day holds
\* more than 15, else returns allowed with current_count the 5-minute count;
\* exactly 10 in the hour and exactly 15 in the day are allowed
C16_WindowOrder ==
    (CheckedUnlocked /\ Successes5(call.user) < per_5_minutes) =>
       /\ call.ret.outcome = "return"
       /\ IF SuccessesIn(call.user, window_1_hour, now) > per_hour
          THEN ~call.ret.allowed
          ELSE IF SuccessesIn(call.user, window_24_hours, now) > per_day
          THEN ~call.ret.allowed
          ELSE call.ret.allowed /\ call.ret.current_count = Successes5(call.user)

\* the loop's last rate-limit check did not return allowed
CheckNotAllowed ==
    /\ rate_limit_check.outcome # "none"
    /\ ~(rate_limit_check.outcome = "return" /\ rate_limit_check.allowed)

\* C18: when the rate-limit check denies for a threat, the rest of the batch
\* is aborted: no prompt and no isolate call for that threat or a later one,
\* and the run ends in the completed state
C18_DenialAbortsBatch ==
    CheckNotAllowed =>
       /\ pc = "done"
       /\ \A k \in 1..Len(isolate_calls) : isolate_calls[k].idx < rate_limit_check.idx
       /\ \A k \in 1..Len(prompts) : prompts[k].idx < rate_limit_check.idx

-----------------------------------------------------------------------------
(* Two _main.py processes of one actor on one audit store *)

MaxPriorSuccesses == 4   \* successes of earlier runs before the two processes

\* the second process at line 229 for a Critical finding about host-b: its
\* rate-limit check
PeerCheck ==
    /\ peer.pc = "loop"
    /\ LET r == check_isolation_rate_limits(lock_file, isolation_events,
                                            audit_log, now, "cli_user")
       IN  /\ lock_file' = r.lock_file
           /\ audit_log' = r.audit_log
           /\ peer' = IF r.outcome = TypeError THEN peer_at("crashed", -1, FALSE)
                      ELSE IF ~r.allowed THEN peer_at("done", -1, FALSE)
                      ELSE peer_at("isolate", r.current_count, FALSE)
    /\ UNCHANGED <<isolation_events, threat_history, now, run_vars, call>>

\* lines 245-251 in the second process: device lookup and quarantine call
PeerIsolate ==
    /\ peer.pc = "isolate"
    /\ \E m \in {"machine-2", None}, ok \in BOOLEAN :
          peer' = IF m = None THEN peer_at("done", peer.current_count, FALSE)
                  ELSE peer_at("log", peer.current_count, ok)
    /\ UNCHANGED <<store_vars, now, run_vars, call>>

\* lines 253-277 in the second process: the event is logged
PeerLog ==
    /\ peer.pc = "log"
    /\ isolation_events' = Append(isolation_events,
           isolation_row(now, "cli_user", "host-b",
                         IF peer.success THEN "success" ELSE "failed",
                         logged_decision(TRUE, peer.success)))
    /\ peer' = peer_at("logged", peer.current_count, peer.success)
    /\ UNCHANGED <<lock_file, audit_log, threat_history, now, run_vars, call>>

InitConcurrent ==
    /\ InitLocals
    /\ peer = peer_at("loop", -1, FALSE)
    /\ lock_file = <<>>
    /\ audit_log = <<>>
    /\ threat_history = 0
    /\ call = [op |-> "none"]
    /\ \E k \in 0..MaxPriorSuccesses :
          /\ isolation_events = History(1, k)
          /\ now = k

\* hunt results of a process that runs beside another
HuntOne == HuntFrom(SmallBatches)

NextConcurrent ==
    \/ Startup
    \/ HuntNothing
    \/ HuntOne
    \/ BatchCheck
    \/ MassCheck
    \/ LoopStep
    \/ Complete
    \/ Prompt
    \/ Resolve
    \/ Isolate
    \/ LogIsolation
    \/ PeerCheck
    \/ PeerIsolate
    \/ PeerLog

SpecConcurrent == InitConcurrent /\ [][NextConcurrent]_vars

\* both processes were allowed on a count below the limit and both recorded
\* a success
BothProceeded ==
    /\ isolate_calls # <<>>
    /\ isolate_calls[1].rate_limit_check.current_count < per_5_minutes
    /\ isolation_events # <<>>
    /\ \E k \in 1..Len(isolation_events) :
          /\ isolation_events[k].device_name = "host-a"
          /\ isolation_events[k].timestamp = now
          /\ isolation_events[k].action_result = "success"
          /\ k > isolate_calls[1].events_before
    /\ peer.pc = "logged"
    /\ peer.success
    /\ peer.current_count < per_5_minutes

\* C12: count-then-insert is atomic for one actor: in no interleaving of two
\* attempts do both observe a count below the limit and both record a success
\* so that the actor's successes of the last five minutes exceed 5
C12_CountThenInsertAtomic ==
    BothProceeded => SuccessesIn("cli_user", window_5_minutes, now) <= per_5_minutes

-----------------------------------------------------------------------------
(* Claims about what one run does with each threat *)

\* the executor reported success for the k-th isolate call of the run
CallSucceeded(k) ==
    /\ Len(isolation_events) > isolate_calls[k].events_before
    /\ isolation_events[isolate_calls[k].events_before + 1].action_result = "success"

\* C21: within a run a device is successfully isolated at most once: after a
\* success every remaining threat is skipped with no rate-limit check, no
\* prompt, no isolate call and no isolation event
C21_OneIsolationPerDevice ==
    \A k \in 1..Len(isolate_calls) :
       CallSucceeded(k) =>
          /\ k = Len(isolate_calls)
          /\ machine_is_isolated
          /\ rate_limit_check.idx = isolate_calls[k].idx
          /\ \A j \in 1..Len(prompts) : prompts[j].idx <= isolate_calls[k].idx
          /\ Len(isolation_events) = isolate_calls[k].events_before + 1
          /\ pc \in {"loop", "done"}

\* the first threat of a longer batch was isolated and the rest was passed over
C21_Witness ==
    /\ isolate_calls # <<>>
    /\ CallSucceeded(1)
    /\ isolate_calls[1].idx = 1
    /\ Len(findings) > 1
    /\ pc = "done"

\* events the run logged for the threat at position i
EventsOfThreat(i) ==
    {isolation_events[isolate_calls[k].events_before + 1] :
        k \in {j \in 1..Len(isolate_calls) :
                  /\ isolate_calls[j].idx = i
                  /\ Len(isolation_events) > isolate_calls[j].events_before}}

\* C22: a threat that requires confirmation is prompted before any isolate
\* call; a decline makes no isolate call, appends a 'declined' user decision
\* and issues the isolation-declined notification; an approval leads to
\* isolation events that carry user_decision 'approved'
C22_ConfirmationBranch ==
    /\ \A k \in 1..Len(isolate_calls) :
          ~CallAutomatic(k) =>
             \E j \in 1..Len(prompts) :
                prompts[j].idx = isolate_calls[k].idx /\ prompts[j].approved
    /\ \A j \in 1..Len(prompts) :
          IF prompts[j].approved
          THEN \A e \in EventsOfThreat(prompts[j].idx) : e.user_decision = "approved"
          ELSE /\ \A k \in 1..Len(isolate_calls) : isolate_calls[k].idx # prompts[j].idx
               /\ alert_isolation_declined # TypeError
               /\ UserDecisionRows("declined") # {}

\* the step that validates a batch of more than 50 threats, and what may
\* follow it
BatchAbortStep ==
    /\ (pc = "batch_check" /\ Len(findings) > batch_size_max) =>
          /\ pc' \in {"batch_check", "exit_batch"}
          /\ threat_history' = threat_history
          /\ lock_file' = lock_file
          /\ isolation_events' = isolation_events
          /\ audit_log' = audit_log
          /\ rate_limit_check' = rate_limit_check
          /\ isolate_calls' = isolate_calls
          /\ prompts' = prompts
          /\ countdown' = countdown
    /\ pc = "exit_batch" => pc' \in {"exit_batch", "startup"}

\* C23: when batch validation fails (more than 50 threats) the batch is
\* aborted before any later step: no threat is persisted, no mass-exception
\* evaluation or confirmation runs, and there is no rate-limit check, isolate
\* call, isolation event or lock engagement
C23_BatchAbort == [][BatchAbortStep]_vars

\* a batch of 51 threats was refused
C23_Witness ==
    /\ pc = "exit_batch"
    /\ Len(findings) = batch_size_max + 1
    /\ threat_history = 0
    /\ rate_limit_check.outcome = "none"

\* the loop is at a Low threat
AtLowThreat ==
    /\ pc = "loop"
    /\ idx <= Len(findings)
    /\ str_lower(findings[idx].confidence) = low

\* the step of the loop at a Low threat
SkipStep ==
    AtLowThreat =>
       /\ pc' \in {"loop", "done", "crashed"}
       /\ prompts' = prompts
       /\ isolate_calls' = isolate_calls
       /\ isolation_events' = isolation_events
       /\ audit_log' = audit_log
       /\ machine_is_isolated' = machine_is_isolated

\* C24: a Low threat causes no action: no prompt, no isolate call, no
\* isolation event and no decision record, and the already-isolated flag is
\* unchanged
C24_SkipNoAction == [][SkipStep]_vars

\* the loop has passed a Low threat of a host query after its rate-limit check
C24_Witness ==
    /\ pc = "loop"
    /\ idx = 2
    /\ query_context.about = "host"
    /\ str_lower(findings[1].confidence) = low
    /\ rate_limit_check.outcome = "return"
    /\ rate_limit_check.idx = 1
    /\ prompts = <<>>
    /\ isolate_calls = <<>>

\* a batch, once received, ends completed or aborted and in no other state
BatchEnd ==
    CASE pc = "exit_batch" -> Len(findings) > batch_size_max
      [] pc = "exit_declined" -> MassDeclined
      [] pc = "done" -> idx > Len(findings) \/ CheckNotAllowed
      [] OTHER -> FALSE

\* C25: every received batch ends Completed or Aborted: Aborted on a failed
\* batch validation or a declined mass confirmation, Completed when the list
\* is exhausted or a rate-limit denial ends it; no batch ends in another state
C25_EndsCompletedOrAborted ==
    (findings # <<>> /\ pc \in Terminal) => BatchEnd

-----------------------------------------------------------------------------
(* Claims about the five-minute limit, the locked check and per-actor counts *)

\* C26: when an actor's successes are appended only by the governed loop of a
\* single caller, the actor never has more than 5 successful isolations
\* inside any 5-minute window, and so the engine never engages the lock
C26_FiveMinuteLimit ==
    /\ \A k \in 1..Len(isolation_events) :
          SuccessesIn("cli_user", window_5_minutes, isolation_events[k].timestamp)
             <= per_5_minutes
    /\ ~LockEngaged

\* a run added the fifth success of a five-minute window
C26_Witness ==
    /\ isolate_calls # <<>>
    /\ CallSucceeded(Len(isolate_calls))
    /\ SuccessesIn("cli_user", window_5_minutes, now) = per_5_minutes

\* what a check returns while the lock is engaged
LOCKED_RESULT ==
    [outcome |-> "return", allowed |-> FALSE, reason |-> "Agent is locked",
     current_count |-> 0]

\* a step that ends with the result of a check made while the lock was engaged
LockedCheckStep ==
    (/\ LockEngaged
     /\ call'.op = "check_isolation_rate_limits"
     /\ call'.locked_before) =>
        /\ call'.ret = LOCKED_RESULT
        /\ lock_file' = lock_file
        /\ audit_log' = audit_log
        /\ isolation_events' = isolation_events

\* C29: a check made while the lock is engaged returns allowed = false with
\* current_count 0 and has no other effect: no window count decides it, no
\* notification is sent, no audit record is appended, the lock is unchanged
C29_LockedCheckFrame == [][LockedCheckStep]_vars

\* a locked check of an actor whose five-minute count is at the limit
C29_Witness ==
    /\ call.op = "check_isolation_rate_limits"
    /\ call.locked_before
    /\ LockEngaged
    /\ call.ret = LOCKED_RESULT
    /\ Successes5(call.user) >= per_5_minutes

\* the isolation events recorded for one actor
EventsOf(user) == SelectSeq(isolation_events, LAMBDA e : e.user = user)

\* what a check for `user` returns in the state that holds only that actor's
\* events
ResultOnOwnEvents(user) ==
    LET r == check_isolation_rate_limits(lock_file, EventsOf(user), audit_log,
                                         now, user)
    IN  IF r.outcome = "return"
        THEN [outcome |-> "return", allowed |-> r.allowed, reason |-> r.reason,
              current_count |-> r.current_count]
        ELSE [outcome |-> r.outcome]

\* a step that makes a check
PerActorStep ==
    (/\ call'.op = "check_isolation_rate_limits"
     /\ isolation_events' = isolation_events
     /\ now' = now
     /\ call' # call) =>
        IF LockEngaged
        THEN call'.ret = LOCKED_RESULT
        ELSE call'.ret = ResultOnOwnEvents(call'.user)

\* C30: rate-limit counting is per actor: with no lock, a check for one actor
\* returns the same result whatever events are recorded for another actor,
\* while an engaged lock blocks every actor
C30_PerActorCounting == [][PerActorStep]_vars

\* a check for cli_user was allowed while test_user was at the limit
C30_Witness ==
    /\ call.op = "check_isolation_rate_limits"
    /\ call.user = "cli_user"
    /\ ~call.locked_before
    /\ call.ret.outcome = "return"
    /\ call.ret.allowed
    /\ Successes5("test_user") >= per_5_minutes

=============================================================================
